---- MODULE Spec2Model ----
(***************************************************************************)
(* Risk scoring and subcounting detection of the Barcelona water-meter     *)
(* pipeline (Stage 4 and the subcounting module), as described by          *)
(* data/stage4_risk_probabilities/README.md and the subcounting module     *)
(* documentation.  Scores are exact rationals <<numerator, denominator>>   *)
(* in lowest terms with a positive denominator.                            *)
(***************************************************************************)
EXTENDS Integers, Sequences, FiniteSets, TLC

\* ------------------------------------------------------------------------
\* Exact rational arithmetic
\* ------------------------------------------------------------------------
RECURSIVE GCD(_, _)
GCD(a, b) == IF b = 0 THEN a ELSE GCD(b, a % b)

Abs(n) == IF n < 0 THEN 0 - n ELSE n

\* A division by zero yields NotANumber (the floating-point nan/inf of the
\* vectorised arithmetic); it propagates through arithmetic and every
\* comparison with it is false.
NotANumber == << 0, 0 >>

Q(n, d) ==
  IF d = 0 THEN NotANumber
  ELSE LET g == GCD(Abs(n), Abs(d))
           s == IF d < 0 THEN 0 - 1 ELSE 1
       IN  << (s * n) \div g, (s * d) \div g >>

Zero == << 0, 1 >>
One == << 1, 1 >>
Hundred == << 100, 1 >>

IsNumber(a) == a[2] > 0
RAdd(a, b) == Q(a[1] * b[2] + b[1] * a[2], a[2] * b[2])
RSub(a, b) == Q(a[1] * b[2] - b[1] * a[2], a[2] * b[2])
RMul(a, b) == Q(a[1] * b[1], a[2] * b[2])
RDiv(a, b) == Q(a[1] * b[2], a[2] * b[1])
RLe(a, b) == IsNumber(a) /\ IsNumber(b) /\ a[1] * b[2] <= b[1] * a[2]
RLt(a, b) == IsNumber(a) /\ IsNumber(b) /\ a[1] * b[2] < b[1] * a[2]
RMax(a, b) == IF RLe(a, b) THEN b ELSE a
RMin(a, b) == IF RLe(a, b) THEN a ELSE b
RAbs(a) == << Abs(a[1]), a[2] >>
InUnit(a) == RLe(Zero, a) /\ RLe(a, One)
InPercent(a) == RLe(Zero, a) /\ RLe(a, Hundred)

\* Sum, minimum and maximum of a function f over a finite non-empty set S.
RECURSIVE SumOver(_, _)
SumOver(f, S) ==
  IF S = {} THEN Zero
  ELSE LET e == CHOOSE e \in S : TRUE IN RAdd(f[e], SumOver(f, S \ {e}))

\* The function f tabulated over S (each value computed once).
RECURSIVE Tabulate(_, _)
Tabulate(f, S) ==
  IF S = {} THEN << >>
  ELSE LET e == CHOOSE e \in S : TRUE IN (e :> f[e]) @@ Tabulate(f, S \ {e})

MinOver(f, S) == f[CHOOSE e \in S : \A o \in S : RLe(f[e], f[o])]
MaxOver(f, S) == f[CHOOSE e \in S : \A o \in S : RLe(f[o], f[e])]
MeanOver(f, S) == RDiv(SumOver(f, S), << Cardinality(S), 1 >>)

\* ------------------------------------------------------------------------
\* Sequences of rationals (a meter's peer-normalised series x_norm)
\* ------------------------------------------------------------------------
RECURSIVE SeqSum(_)
SeqSum(x) == IF x = << >> THEN Zero ELSE RAdd(Head(x), SeqSum(Tail(x)))

SeqMean(x) == RDiv(SeqSum(x), << Len(x), 1 >>)

\* Number of entries of x strictly below / equal to v (used for the median).
CountLess(x, v) == Cardinality({i \in 1..Len(x) : RLt(x[i], v)})
CountEq(x, v) == Cardinality({i \in 1..Len(x) : x[i] = v})

\* k-th smallest entry of x (k in 1..Len(x)).
KthSmallest(x, k) ==
  LET i == CHOOSE i \in 1..Len(x) :
             CountLess(x, x[i]) < k /\ k <= CountLess(x, x[i]) + CountEq(x, x[i])
  IN  x[i]

Median(x) ==
  LET n == Len(x)
  IN  IF n % 2 = 1 THEN KthSmallest(x, (n + 1) \div 2)
      ELSE RDiv(RAdd(KthSmallest(x, n \div 2), KthSmallest(x, n \div 2 + 1)), << 2, 1 >>)

\* ------------------------------------------------------------------------
\* Configuration (SubcountingConfig and the Stage 4 parameters)
\* ------------------------------------------------------------------------
\* Windows of the drop ratio.  They are configurable (defaults 12 and 6);
\* the model runs the pipeline with windows 2 and 1 so that series of at
\* most MaxPeriods periods cover both the "enough data" and the "not enough
\* data" branch.
Windows == [baseline_window |-> 2, recent_window |-> 1]

\* Breakpoints of the piecewise-linear sub-score mappings.
RatioStrong == << 1, 2 >>
RatioNeutral == << 4, 5 >>
SlopeStrong == << 0 - 1, 20 >>

\* Logical reinforcement: threshold for a "strong" indicator and the floor.
StrongThreshold == << 7, 10 >>
ReinforcementFloor == << 7, 10 >>

DefaultWeights == [w_ratio |-> << 2, 5 >>, w_trend |-> << 3, 10 >>, w_slope_change |-> << 3, 10 >>]
DefaultGamma == << 4, 5 >>

\* Stage 4 weights: R_i = w1 * s_i + w2 * D_k(i), D_k = alpha * age + beta * canya.
W1 == << 1, 2 >>
W2 == << 1, 2 >>
Alpha == << 3, 5 >>
Beta == << 2, 5 >>

\* ------------------------------------------------------------------------
\* Population-wide min-max normalisation
\* ------------------------------------------------------------------------
\* Variant: the minimum is not subtracted from the value.
MinMaxScaleNoShift(v, lo, hi) == RDiv(v, RSub(hi, lo))

\* Variant: distance to the maximum instead of the minimum.
MinMaxScaleInverted(v, lo, hi) == RDiv(RSub(hi, v), RSub(hi, lo))

MinMaxScale(v, lo, hi) == RDiv(RSub(v, lo), RSub(hi, lo))

\* The scaling applied with no guard for a population of identical values.
NormaliseWithoutDefault(v, lo, hi) == MinMaxScale(v, lo, hi)

\* Degenerate population (max = min): the normalised score defaults to 0.
NormaliseOrDefault(v, lo, hi) == IF hi = lo THEN Zero ELSE MinMaxScale(v, lo, hi)

MinMaxNormalise(f, S) ==
  LET t == Tabulate(f, S)
      lo == MinOver(t, S)
      hi == MaxOver(t, S)
  IN  Tabulate([e \in S |-> NormaliseOrDefault(t[e], lo, hi)], S)

\* ------------------------------------------------------------------------
\* Subcounting indicators on one meter's series x (ordered by period)
\* ------------------------------------------------------------------------
\* Least-squares slope of x against t = 0..n-1; 0 when fewer than 2 points.
TrendSlope(x) ==
  LET n == Len(x)
      t == [i \in 1..n |-> << i - 1, 1 >>]
      tx == [i \in 1..n |-> RMul(t[i], x[i])]
      tt == [i \in 1..n |-> RMul(t[i], t[i])]
      nn == << n, 1 >>
  IN  IF n < 2 THEN Zero
      ELSE RDiv(RSub(RMul(nn, SeqSum(tx)), RMul(SeqSum(t), SeqSum(x))),
                RSub(RMul(nn, SeqSum(tt)), RMul(SeqSum(t), SeqSum(t))))

\* Variant: no neutral value for a baseline of mean 0.
DropRatioNoZeroGuard(x) ==
  LET n == Len(x)
      rw == Windows.recent_window
      bw == Windows.baseline_window
  IN  IF n < rw + bw THEN One
      ELSE RDiv(SeqMean(SubSeq(x, n - rw + 1, n)),
                SeqMean(SubSeq(x, n - rw - bw + 1, n - rw)))

\* Long-term drop ratio R = mean(recent) / mean(baseline); 1 (neutral) when
\* there are not enough periods or the baseline mean is 0.
DropRatio(x) ==
  LET n == Len(x)
      rw == Windows.recent_window
      bw == Windows.baseline_window
  IN  IF n < rw + bw THEN One
      ELSE LET recent == SubSeq(x, n - rw + 1, n)
               baseline == SubSeq(x, n - rw - bw + 1, n - rw)
           IN  IF SeqMean(baseline) = Zero THEN One
               ELSE RDiv(SeqMean(recent), SeqMean(baseline))

\* rel_slope = slope / median_level.
RelSlope(x) == RDiv(TrendSlope(x), Median(x))

\* Variant: the ratio of the half slopes with no neutral case.
SlopeChangeUnguarded(x) ==
  RDiv(TrendSlope(SubSeq(x, (Len(x) \div 2) + 1, Len(x))),
       TrendSlope(SubSeq(x, 1, Len(x) \div 2)))

\* delta_s = s_second / s_first, 1 (neutral) when s_first is ~0.
SlopeChange(x) ==
  LET n == Len(x)
      h == n \div 2
      s_first == TrendSlope(SubSeq(x, 1, h))
      s_second == TrendSlope(SubSeq(x, h + 1, n))
  IN  IF s_first = Zero THEN One ELSE RDiv(s_second, s_first)

\* Variant: a step at 0.5 with no linear part.
ScoreFromRatioStep(r) == IF RLe(r, RatioStrong) THEN One ELSE Zero

\* R <= 0.5 -> 1, R >= 0.8 -> 0, linear in between.
ScoreFromRatio(r) ==
  IF RLe(r, RatioStrong) THEN One
  ELSE IF RLe(RatioNeutral, r) THEN Zero
  ELSE RDiv(RSub(RatioNeutral, r), RSub(RatioNeutral, RatioStrong))

\* rel_slope >= 0 -> 0, rel_slope <= -0.05 -> 1, linear in between.
ScoreFromSlope(rel) ==
  IF RLe(Zero, rel) THEN Zero
  ELSE IF RLe(rel, SlopeStrong) THEN One
  ELSE RDiv(rel, SlopeStrong)

\* delta_s is mapped with the same breakpoints as R.
ScoreFromSlopeChange(d) ==
  IF RLe(d, RatioStrong) THEN One
  ELSE IF RLe(RatioNeutral, d) THEN Zero
  ELSE RDiv(RSub(RatioNeutral, d), RSub(RatioNeutral, RatioStrong))

\* ------------------------------------------------------------------------
\* Combining the indicators into subcount_score_raw
\* ------------------------------------------------------------------------
WeightedSum(w, sR, sT, sD) ==
  RAdd(RAdd(RMul(w.w_ratio, sR), RMul(w.w_trend, sT)), RMul(w.w_slope_change, sD))

IsStrong(s) == RLt(StrongThreshold, s)

StrongCount(sR, sT, sD) ==
  (IF IsStrong(sR) THEN 1 ELSE 0) + (IF IsStrong(sT) THEN 1 ELSE 0)
    + (IF IsStrong(sD) THEN 1 ELSE 0)

\* Variant: the floor is never applied.
ReinforceWithoutFloor(raw, sR, sT, sD) == raw

Reinforce(raw, sR, sT, sD) ==
  IF StrongCount(sR, sT, sD) >= 2 THEN RMax(raw, ReinforcementFloor) ELSE raw

SubcountScoreRaw(w, sR, sT, sD) == Reinforce(WeightedSum(w, sR, sT, sD), sR, sT, sD)

\* One row of the metrics table for a meter with series x.
MeterMetrics(w, x) ==
  LET r == DropRatio(x)
      slope == TrendSlope(x)
      d == SlopeChange(x)
      sR == ScoreFromRatio(r)
      sT == ScoreFromSlope(RelSlope(x))
      sD == ScoreFromSlopeChange(d)
  IN  [n_periods |-> Len(x), R |-> r, slope |-> slope, delta_s |-> d,
       s_R |-> sR, s_T |-> sT, s_delta |-> sD,
       subcount_score_raw |-> SubcountScoreRaw(w, sR, sT, sD)]

\* ------------------------------------------------------------------------
\* Option A: combination of base risk and subcounting
\* ------------------------------------------------------------------------
\* Variant: gamma is not applied to the subcounting score.
PSubNoGamma(gamma, subcount_score) == subcount_score

PSub(gamma, subcount_score) == RMul(gamma, subcount_score)

\* Variant: the two probabilities are added and capped at 1.
PFinalCappedSum(p_cluster, p_sub) == RMin(One, RAdd(p_cluster, p_sub))

\* Variant: sign slip in the second factor.
PFinalSignSlip(p_cluster, p_sub) ==
  RSub(One, RMul(RSub(One, p_cluster), RAdd(One, p_sub)))

PFinal(p_cluster, p_sub) == RSub(One, RMul(RSub(One, p_cluster), RSub(One, p_sub)))

ToPercent(p) == RMul(Hundred, p)

RiskPercentFinal(gamma, p_cluster, subcount_score) ==
  ToPercent(PFinal(p_cluster, PSub(gamma, subcount_score)))

\* ------------------------------------------------------------------------
\* Stage 4 on a population (compute_risk_scores)
\* ------------------------------------------------------------------------
\* Latent vectors are one-dimensional in the model, so the Euclidean
\* distance to the centroid is an absolute difference.
Members(cl, S, k) == {m \in S : cl[m] = k}
ClustersOf(cl, S) == {cl[m] : m \in S}

Centroid(z, cl, S, k) == MeanOver(z, Members(cl, S, k))

CentroidDistance(z, cl, S) ==
  Tabulate([m \in S |-> RAbs(RSub(z[m], Centroid(z, cl, S, cl[m])))], S)

\* Step 1: distances normalised to [0, 1] across all meters.
AnomalyScores(z, cl, S) == MinMaxNormalise(CentroidDistance(z, cl, S), S)

\* Step 2: D_k = alpha * norm(age) + beta * norm(canya) on the cluster means
\* of the normalised features, then normalised to [0, 1] across clusters.
DegradationIndex(ag, ca, cl, S) ==
  LET nage == MinMaxNormalise(ag, S)
      ncanya == MinMaxNormalise(ca, S)
  IN  Tabulate([k \in ClustersOf(cl, S) |->
                  RAdd(RMul(Alpha, MeanOver(nage, Members(cl, S, k))),
                       RMul(Beta, MeanOver(ncanya, Members(cl, S, k))))],
               ClustersOf(cl, S))

ClusterDegradation(ag, ca, cl, S) ==
  MinMaxNormalise(DegradationIndex(ag, ca, cl, S), ClustersOf(cl, S))

\* Step 3: R_i = w1 * s_i + w2 * D_k(i), normalised to [0, 1] (p_cluster).
BaseRiskRaw(an, dg, cl, S) ==
  Tabulate([m \in S |-> RAdd(RMul(W1, an[m]), RMul(W2, dg[cl[m]]))], S)

BaseRisk(an, dg, cl, S) == MinMaxNormalise(BaseRiskRaw(an, dg, cl, S), S)

\* compute_subcounting_metrics: one row per meter that has at least one
\* period; subcount_score is the raw score normalised across those rows.
\* Variant: meters with fewer periods than the drop-ratio windows are dropped.
MetersWithLongHistory(ser, S) ==
  {m \in S : Len(ser[m]) >= Windows.recent_window + Windows.baseline_window}

MetersWithHistory(ser, S) == {m \in S : Len(ser[m]) > 0}

SubcountingMetrics(w, ser, S) ==
  LET rows == MetersWithHistory(ser, S)
      met == Tabulate([m \in rows |-> MeterMetrics(w, ser[m])], rows)
      raw == [m \in rows |-> met[m].subcount_score_raw]
      norm == IF rows = {} THEN raw ELSE MinMaxNormalise(raw, rows)
  IN  [m \in rows |->
         [n_periods |-> met[m].n_periods, R |-> met[m].R, slope |-> met[m].slope,
          delta_s |-> met[m].delta_s, s_R |-> met[m].s_R, s_T |-> met[m].s_T,
          s_delta |-> met[m].s_delta,
          subcount_score_raw |-> met[m].subcount_score_raw,
          subcount_score |-> norm[m]]]

\* Merge of df_sub into the Stage 4 results: a meter without a metrics row
\* gets subcount_score 0.
MergedSubcountScore(sub, m) == IF m \in DOMAIN sub THEN sub[m].subcount_score ELSE Zero

\* Variant: the cluster's degradation weighted by the meter's own anomaly.
RiskRecordOwnDegradation(m, cl, an, dg, pc0, sub, gamma) ==
  [meter_id |-> m,
   cluster_id |-> cl[m],
   anomaly_score |-> an[m],
   cluster_degradation |-> RMul(dg[cl[m]], an[m]),
   subcount_score |-> MergedSubcountScore(sub, m),
   risk_percent_base |-> ToPercent(pc0[m]),
   risk_percent |-> RiskPercentFinal(gamma, pc0[m], MergedSubcountScore(sub, m))]

RiskRecord(m, cl, an, dg, pc0, sub, gamma) ==
  [meter_id |-> m,
   cluster_id |-> cl[m],
   anomaly_score |-> an[m],
   cluster_degradation |-> dg[cl[m]],
   subcount_score |-> MergedSubcountScore(sub, m),
   risk_percent_base |-> ToPercent(pc0[m]),
   risk_percent |-> RiskPercentFinal(gamma, pc0[m], MergedSubcountScore(sub, m))]

\* Variant: rows sorted by risk_percent, lowest first.
RECURSIVE SortByRiskAscending(_, _)
SortByRiskAscending(rec, S) ==
  IF S = {} THEN << >>
  ELSE LET low == CHOOSE m \in S :
                    \A o \in S :
                      \/ RLt(rec[m].risk_percent, rec[o].risk_percent)
                      \/ rec[o].risk_percent = rec[m].risk_percent /\ m <= o
       IN  << rec[low] >> \o SortByRiskAscending(rec, S \ {low})

\* Rows sorted by risk_percent, highest first (ties keep meter order).
RECURSIVE SortByRisk(_, _)
SortByRisk(rec, S) ==
  IF S = {} THEN << >>
  ELSE LET top == CHOOSE m \in S :
                    \A o \in S :
                      \/ RLt(rec[o].risk_percent, rec[m].risk_percent)
                      \/ rec[o].risk_percent = rec[m].risk_percent /\ m <= o
       IN  << rec[top] >> \o SortByRisk(rec, S \ {top})

\* ------------------------------------------------------------------------
\* Inputs of a run
\* ------------------------------------------------------------------------
MeterIds == {1, 2, 3}
Populations == {1..n : n \in 1..Cardinality(MeterIds)}

\* (latent z, cluster label, age, canya) of a meter.
BaseProfiles ==
  << [z |-> << 0, 1 >>, cluster_id |-> 1, age |-> << 0, 1 >>, canya |-> << 0, 1 >>],
    [z |-> << 2, 1 >>, cluster_id |-> 1, age |-> << 1, 1 >>, canya |-> << 2, 1 >>],
    [z |-> << 3, 1 >>, cluster_id |-> 2, age |-> << 3, 1 >>, canya |-> << 1, 1 >>],
    [z |-> << 5, 1 >>, cluster_id |-> 1, age |-> << 2, 1 >>, canya |-> << 1, 1 >>] >>

\* Meter ids are opaque, so a population is taken up to renaming of its
\* meters: profiles are assigned in non-decreasing order of their index.
ProfileAssignments(S) ==
  {f \in [S -> 1..Len(BaseProfiles)] : \A a \in S : \A b \in S : a <= b => f[a] <= f[b]}

\* Peer-normalised monthly series of a meter: no history, a short decline,
\* a flat series, a drop in the recent window, a slowdown in the second half.
SeriesChoices ==
  { << >>,
    << << 2, 1 >>, << 1, 1 >> >>,
    << << 1, 1 >>, << 1, 1 >>, << 1, 1 >> >>,
    << << 2, 1 >>, << 2, 1 >>, << 1, 1 >> >>,
    << << 1, 1 >>, << 3, 1 >>, << 3, 1 >>, << 4, 1 >> >> }

\* Configurations of a run: the defaults, gamma at both ends of [0, 1], and
\* indicator weights that do not sum to 1.
UnitWeights == [w_ratio |-> One, w_trend |-> One, w_slope_change |-> One]
ConfigChoices ==
  { [gamma |-> DefaultGamma, weights |-> DefaultWeights],
    [gamma |-> Zero, weights |-> DefaultWeights],
    [gamma |-> One, weights |-> DefaultWeights],
    [gamma |-> DefaultGamma, weights |-> UnitWeights] }

CsvInputs == << "latent", "clusters", "physical" >>
FileStatus == {"ok", "missing", "malformed"}

ErrorFor(st) ==
  IF st = "missing" THEN "MissingUpstreamInputError" ELSE "SchemaViolationError"

\* First input, in reading order, that cannot be loaded (0 if none).
FirstBad(st) ==
  IF \A i \in 1..Len(CsvInputs) : st[CsvInputs[i]] = "ok" THEN 0
  ELSE CHOOSE i \in 1..Len(CsvInputs) :
         /\ st[CsvInputs[i]] # "ok"
         /\ \A j \in 1..(i - 1) : st[CsvInputs[j]] = "ok"

VARIABLES
  pc,                  \* position of the run
  attempts,            \* number of times the inputs were read
  error,               \* reported fatal error, "none" if none
  gamma, weights,      \* configuration
  meters,              \* meter ids of the cluster-label / latent tables
  latent, cluster_id, age, canya,
  series,              \* x_norm series per meter from the consumption database
  anomaly_score, cluster_degradation, p_cluster,
  df_sub,              \* SubcountingMetrics rows
  results,             \* per-meter records after the combination
  output               \* rows written to meter_failure_risk.csv

runVars == << pc, attempts, error, gamma, weights, meters, latent, cluster_id, age,
              canya, series, anomaly_score, cluster_degradation, p_cluster, df_sub,
              results, output >>

\* State of the component-level specifications (one component applied to
\* inputs drawn from a grid).
VARIABLES
  cmb,                 \* RiskCombiner on one meter
  sc,                  \* SubcountingScorer on one meter's sub-scores
  peer                 \* PeerNormalizer on one period

Idle == [stage |-> "idle"]
unitVars == << cmb, sc, peer >>

VARIABLES
  ind,                 \* indicators of one meter's series
  mp,                  \* indicator to sub-score mappings on two inputs
  nrm,                 \* min-max normalisation of one population
  ui,                  \* status of a meter as derived by the dashboard
  al,                  \* alarm list of the insights panel
  wp                   \* two-pass normalisation over per-meter tasks

moreVars == << ind, mp, nrm, ui, al, wp >>
MoreIdle ==
  /\ ind = Idle /\ mp = Idle /\ nrm = Idle /\ ui = Idle /\ al = Idle /\ wp = Idle

VARIABLES
  agg,                 \* monthly aggregation of a daily consumption table
  ns,                  \* peer normalisation of an aggregated table
  sheet,               \* the InsightsSheet component
  wmap                 \* the WaterMeterMap component

pageVars == << agg, ns, sheet, wmap >>
PageIdle == agg = Idle /\ ns = Idle /\ sheet = Idle /\ wmap = Idle

vars == << runVars, unitVars, moreVars, pageVars >>

RunStart ==
  /\ pc = "start"
  /\ attempts = 0
  /\ error = "none"
  /\ meters = {}
  /\ latent = << >> /\ cluster_id = << >> /\ age = << >> /\ canya = << >>
  /\ series = << >>
  /\ anomaly_score = << >> /\ cluster_degradation = << >> /\ p_cluster = << >>
  /\ df_sub = << >>
  /\ results = << >>
  /\ output = << >>

Init ==
  /\ RunStart
  /\ PageIdle
  /\ \E cfg \in ConfigChoices : gamma = cfg.gamma /\ weights = cfg.weights
  /\ cmb = Idle /\ sc = Idle /\ peer = Idle
  /\ MoreIdle

\* A fatal input error: the run stops and reports the error.
AbortRun(st) ==
  /\ pc' = "aborted"
  /\ error' = ErrorFor(st)

\* Read the latent, cluster-label and physical-feature tables.
ReadInputs ==
  /\ pc = "start"
  /\ attempts' = attempts + 1
  /\ \E st \in [{"latent", "clusters", "physical"} -> FileStatus] :
       IF FirstBad(st) = 0
       THEN \E S \in Populations : \E prof \in ProfileAssignments(S) :
              /\ meters' = S
              /\ latent' = [m \in S |-> BaseProfiles[prof[m]].z]
              /\ cluster_id' = [m \in S |-> BaseProfiles[prof[m]].cluster_id]
              /\ age' = [m \in S |-> BaseProfiles[prof[m]].age]
              /\ canya' = [m \in S |-> BaseProfiles[prof[m]].canya]
              /\ pc' = "loaded"
              /\ error' = error
       ELSE /\ AbortRun(st[CsvInputs[FirstBad(st)]])
            /\ UNCHANGED << meters, latent, cluster_id, age, canya >>
  /\ UNCHANGED << gamma, weights, series, anomaly_score, cluster_degradation,
                  p_cluster, df_sub, results, output >>
  /\ UNCHANGED << unitVars, moreVars, pageVars >>

ComputeAnomaly ==
  /\ pc = "loaded"
  /\ anomaly_score' = AnomalyScores(latent, cluster_id, meters)
  /\ pc' = "anomaly"
  /\ UNCHANGED << attempts, error, gamma, weights, meters, latent, cluster_id, age,
                  canya, series, cluster_degradation, p_cluster, df_sub, results,
                  output >>
  /\ UNCHANGED << unitVars, moreVars, pageVars >>

ComputeDegradation ==
  /\ pc = "anomaly"
  /\ cluster_degradation' = ClusterDegradation(age, canya, cluster_id, meters)
  /\ pc' = "degradation"
  /\ UNCHANGED << attempts, error, gamma, weights, meters, latent, cluster_id, age,
                  canya, series, anomaly_score, p_cluster, df_sub, results, output >>
  /\ UNCHANGED << unitVars, moreVars, pageVars >>

ComputeBaseRisk ==
  /\ pc = "degradation"
  /\ p_cluster' = BaseRisk(anomaly_score, cluster_degradation, cluster_id, meters)
  /\ pc' = "base"
  /\ UNCHANGED << attempts, error, gamma, weights, meters, latent, cluster_id, age,
                  canya, series, anomaly_score, cluster_degradation, df_sub,
                  results, output >>
  /\ UNCHANGED << unitVars, moreVars, pageVars >>

\* compute_subcounting_scores: load the consumption database and compute
\* the metrics table.
ComputeSubcounting ==
  /\ pc = "base"
  /\ \E st \in FileStatus :
       IF st = "ok"
       THEN \E ser \in [meters -> SeriesChoices] :
              /\ series' = ser
              /\ df_sub' = SubcountingMetrics(weights, ser, meters)
              /\ pc' = "subcount"
              /\ error' = error
       ELSE /\ AbortRun(st)
            /\ UNCHANGED << series, df_sub >>
  /\ UNCHANGED << attempts, gamma, weights, meters, latent, cluster_id, age, canya,
                  anomaly_score, cluster_degradation, p_cluster, results, output >>
  /\ UNCHANGED << unitVars, moreVars, pageVars >>

\* Merge subcount_score into the results and apply Option A.
CombineRisk ==
  /\ pc = "subcount"
  /\ results' = [m \in meters |->
                   RiskRecord(m, cluster_id, anomaly_score, cluster_degradation,
                              p_cluster, df_sub, gamma)]
  /\ pc' = "combined"
  /\ UNCHANGED << attempts, error, gamma, weights, meters, latent, cluster_id, age,
                  canya, series, anomaly_score, cluster_degradation, p_cluster,
                  df_sub, output >>
  /\ UNCHANGED << unitVars, moreVars, pageVars >>

\* Variant: only the meters that have a metrics row are written (inner merge).
EmittedRowsWithMetrics(rec, S) == SortByRisk(rec, S \cap DOMAIN df_sub)

\* The table written to meter_failure_risk.csv.
EmittedTable(rec, S) == SortByRisk(rec, S)

WriteOutput ==
  /\ pc = "combined"
  /\ output' = EmittedTable(results, meters)
  /\ pc' = "done"
  /\ UNCHANGED << attempts, error, gamma, weights, meters, latent, cluster_id, age,
                  canya, series, anomaly_score, cluster_degradation, p_cluster,
                  df_sub, results >>
  /\ UNCHANGED << unitVars, moreVars, pageVars >>

Next ==
  \/ ReadInputs
  \/ ComputeAnomaly
  \/ ComputeDegradation
  \/ ComputeBaseRisk
  \/ ComputeSubcounting
  \/ CombineRisk
  \/ WriteOutput

Spec == Init /\ [][Next]_vars

\* ------------------------------------------------------------------------
\* RiskCombiner applied to one meter, inputs on a grid of [0, 1]
\* ------------------------------------------------------------------------
GridDen == 10
UnitGrid == {Q(k, GridDen) : k \in 0..GridDen}

InitCombine ==
  /\ RunStart
  /\ PageIdle
  /\ gamma = DefaultGamma
  /\ weights = DefaultWeights
  /\ cmb \in {[stage |-> "input", gamma |-> g, p_cluster |-> p, subcount_score |-> s] :
               g \in UnitGrid, p \in UnitGrid, s \in UnitGrid}
  /\ sc = Idle /\ peer = Idle
  /\ MoreIdle

ApplyCombiner ==
  /\ cmb.stage = "input"
  /\ cmb' = [stage |-> "combined",
             gamma |-> cmb.gamma,
             p_cluster |-> cmb.p_cluster,
             subcount_score |-> cmb.subcount_score,
             risk_percent_base |-> ToPercent(cmb.p_cluster),
             risk_percent |-> RiskPercentFinal(cmb.gamma, cmb.p_cluster,
                                               cmb.subcount_score)]
  /\ UNCHANGED << runVars, pageVars, sc, peer, moreVars >>

NextCombine == ApplyCombiner

SpecCombine == InitCombine /\ [][NextCombine]_vars

\* ------------------------------------------------------------------------
\* SubcountingScorer applied to one meter's sub-scores
\* ------------------------------------------------------------------------
ScoreValues == { Zero, << 1, 2 >>, << 7, 10 >>, << 4, 5 >>, One }
WeightValues == { Zero, << 3, 10 >>, << 2, 5 >>, One }

InitScore ==
  /\ RunStart
  /\ PageIdle
  /\ gamma = DefaultGamma
  /\ weights = DefaultWeights
  /\ sc \in {[stage |-> "input",
              weights |-> [w_ratio |-> a, w_trend |-> b, w_slope_change |-> c],
              s_R |-> x, s_T |-> y, s_delta |-> z] :
               a \in WeightValues, b \in WeightValues, c \in WeightValues,
               x \in ScoreValues, y \in ScoreValues, z \in ScoreValues}
  /\ cmb = Idle /\ peer = Idle
  /\ MoreIdle

ApplyScorer ==
  /\ sc.stage = "input"
  /\ sc' = [stage |-> "scored", weights |-> sc.weights,
            s_R |-> sc.s_R, s_T |-> sc.s_T, s_delta |-> sc.s_delta,
            subcount_score_raw |->
              SubcountScoreRaw(sc.weights, sc.s_R, sc.s_T, sc.s_delta)]
  /\ UNCHANGED << runVars, pageVars, cmb, peer, moreVars >>

NextScore == ApplyScorer

SpecScore == InitScore /\ [][NextScore]_vars

\* ------------------------------------------------------------------------
\* PeerNormalizer applied to one period (global peers)
\* ------------------------------------------------------------------------
MaxVolume == 3
MaxScale == 3
EpsChoices == { << 1, 1000 >>, << 1, 10 >> }

\* Aggregated consumption of the meters that have a row in the period.
PeriodTables ==
  UNION {[1..n -> {<< v, 1 >> : v \in 0..MaxVolume}] : n \in 1..Cardinality(MeterIds)}

\* Variant: operator precedence slip, consumo / peer_median + eps.
XNormPrecedenceSlip(v, med, eps) == RAdd(RDiv(v, med), eps)

\* x_norm = consumo / (peer_median + eps).
XNorm(v, med, eps) == RDiv(v, RAdd(med, eps))

PeerNormalisation(con, eps) ==
  LET med == Median(con)
  IN  [peer_median |-> med,
       x_norm |-> Tabulate([m \in DOMAIN con |-> XNorm(con[m], med, eps)], DOMAIN con)]

InitPeer ==
  /\ RunStart
  /\ PageIdle
  /\ gamma = DefaultGamma
  /\ weights = DefaultWeights
  /\ peer \in {[stage |-> "input", consumo |-> con, eps |-> e] :
                con \in PeriodTables, e \in EpsChoices}
  /\ cmb = Idle /\ sc = Idle
  /\ MoreIdle

PeerNormalise ==
  /\ peer.stage = "input"
  /\ peer' = [stage |-> "normalised", consumo |-> peer.consumo, eps |-> peer.eps,
              peer_median |-> PeerNormalisation(peer.consumo, peer.eps).peer_median,
              x_norm |-> PeerNormalisation(peer.consumo, peer.eps).x_norm]
  /\ UNCHANGED << runVars, pageVars, cmb, sc, moreVars >>

\* The same period with every meter's consumption multiplied by c,
\* normalised again.
ScalePeriod ==
  /\ peer.stage = "normalised"
  /\ \E c \in 1..MaxScale :
       LET scaled == [m \in DOMAIN peer.consumo |-> RMul(<< c, 1 >>, peer.consumo[m])]
       IN  peer' = [stage |-> "scaled", consumo |-> peer.consumo, eps |-> peer.eps,
                    peer_median |-> peer.peer_median, x_norm |-> peer.x_norm,
                    scale |-> c,
                    x_norm_scaled |-> PeerNormalisation(scaled, peer.eps).x_norm]
  /\ UNCHANGED << runVars, pageVars, cmb, sc, moreVars >>

NextPeer == PeerNormalise \/ ScalePeriod

SpecPeer == InitPeer /\ [][NextPeer]_vars

\* ------------------------------------------------------------------------
\* Subcounting indicators of one meter (one row of
\* compute_subcounting_metrics), series drawn from a grid of levels
\* ------------------------------------------------------------------------
MaxPeriods == 5
MaxLevel == 3

SeriesInputs ==
  UNION {[1..n -> {<< v, 1 >> : v \in 0..MaxLevel}] : n \in 1..MaxPeriods}

InitIndic ==
  /\ RunStart
  /\ PageIdle
  /\ gamma = DefaultGamma
  /\ weights = DefaultWeights
  /\ ind \in {[stage |-> "input", weights |-> w, x |-> x] :
               w \in {DefaultWeights, UnitWeights}, x \in SeriesInputs}
  /\ cmb = Idle /\ sc = Idle /\ peer = Idle
  /\ mp = Idle /\ nrm = Idle /\ ui = Idle /\ al = Idle /\ wp = Idle

ComputeIndicators ==
  /\ ind.stage = "input"
  /\ ind' = [stage |-> "measured", weights |-> ind.weights, x |-> ind.x,
             metrics |-> MeterMetrics(ind.weights, ind.x)]
  /\ UNCHANGED << runVars, pageVars, unitVars, mp, nrm, ui, al, wp >>

NextIndic == ComputeIndicators

SpecIndic == InitIndic /\ [][NextIndic]_vars

\* ------------------------------------------------------------------------
\* Min-max normalisation of one population, applied and applied again
\* ------------------------------------------------------------------------
ValueTables == UNION {[1..n -> UnitGrid] : n \in 1..Cardinality(MeterIds)}

InitNorm ==
  /\ RunStart
  /\ PageIdle
  /\ gamma = DefaultGamma
  /\ weights = DefaultWeights
  /\ nrm \in {[stage |-> "input", values |-> f] : f \in ValueTables}
  /\ cmb = Idle /\ sc = Idle /\ peer = Idle
  /\ ind = Idle /\ mp = Idle /\ ui = Idle /\ al = Idle /\ wp = Idle

NormalisePopulation ==
  /\ nrm.stage = "input"
  /\ nrm' = [stage |-> "normalised", values |-> nrm.values,
             normalised |-> MinMaxNormalise(nrm.values, DOMAIN nrm.values)]
  /\ UNCHANGED << runVars, pageVars, unitVars, ind, mp, ui, al, wp >>

NormaliseAgain ==
  /\ nrm.stage = "normalised"
  /\ nrm' = [stage |-> "renormalised", values |-> nrm.values,
             normalised |-> nrm.normalised,
             again |-> MinMaxNormalise(nrm.normalised, DOMAIN nrm.normalised)]
  /\ UNCHANGED << runVars, pageVars, unitVars, ind, mp, ui, al, wp >>

NextNorm == NormalisePopulation \/ NormaliseAgain

SpecNorm == InitNorm /\ [][NextNorm]_vars

\* ------------------------------------------------------------------------
\* Dashboard: status of a meter derived from its risk (WaterMeterMap.tsx)
\* ------------------------------------------------------------------------
AlertThreshold == << 80, 1 >>
WarningThreshold == << 50, 1 >>

\* risk >= 80 ? 'alert' : risk >= 50 ? 'warning' : 'normal'
StatusFromRisk(risk) ==
  IF RLe(AlertThreshold, risk) THEN "alert"
  ELSE IF RLe(WarningThreshold, risk) THEN "warning"
  ELSE "normal"

\* risk > 80 ? 'alert' : risk > 50 ? 'warning' : 'normal'
MockStatusFromRisk(risk) ==
  IF RLt(AlertThreshold, risk) THEN "alert"
  ELSE IF RLt(WarningThreshold, risk) THEN "warning"
  ELSE "normal"

\* A feature without a risk_percent property.
NoRisk == << >>

\* props?.risk_percent || 0
RiskOrZero(p) == IF p = NoRisk THEN Zero ELSE p

\* Risk values in steps of 1 / RiskSteps over 0..100, or no risk property.
RiskSteps == 2
RiskInputs == {Q(k, RiskSteps) : k \in 0..(100 * RiskSteps)} \cup {NoRisk}

InitStatus ==
  /\ RunStart
  /\ PageIdle
  /\ gamma = DefaultGamma
  /\ weights = DefaultWeights
  /\ ui \in {[stage |-> "input", risk_percent |-> r] : r \in RiskInputs}
  /\ cmb = Idle /\ sc = Idle /\ peer = Idle
  /\ ind = Idle /\ mp = Idle /\ nrm = Idle /\ al = Idle /\ wp = Idle

\* loadData: a feature of the meters GeoJSON becomes a WaterMeter.
LoadMeter ==
  /\ ui.stage = "input"
  /\ LET risk == RiskOrZero(ui.risk_percent)
     IN  ui' = [stage |-> "derived", site |-> "loadData",
                risk_percent |-> risk, status |-> StatusFromRisk(risk)]
  /\ UNCHANGED << runVars, pageVars, unitVars, ind, mp, nrm, al, wp >>

\* Click handler of a map layer: the clicked feature becomes a WaterMeter.
ClickMeter ==
  /\ ui.stage = "input"
  /\ LET risk == RiskOrZero(ui.risk_percent)
     IN  ui' = [stage |-> "derived", site |-> "click",
                risk_percent |-> risk, status |-> StatusFromRisk(risk)]
  /\ UNCHANGED << runVars, pageVars, unitVars, ind, mp, nrm, al, wp >>

\* generateMockMeters: risk = Math.random() * 100, always a number.
GenerateMockMeter ==
  /\ ui.stage = "input"
  /\ ui.risk_percent # NoRisk
  /\ ui' = [stage |-> "derived", site |-> "generateMockMeters",
            risk_percent |-> ui.risk_percent,
            status |-> MockStatusFromRisk(ui.risk_percent)]
  /\ UNCHANGED << runVars, pageVars, unitVars, ind, mp, nrm, al, wp >>

NextStatus == LoadMeter \/ ClickMeter \/ GenerateMockMeter

SpecStatus == InitStatus /\ [][NextStatus]_vars

\* ------------------------------------------------------------------------
\* Dashboard: alarms of the insights panel (generateAlarms, Index.tsx)
\* ------------------------------------------------------------------------
TopCount == 20
MaxMeters == 22
MaxStride == 6

\* A value that JavaScript's || skips: undefined or 0.
Falsy(p) == p = NoRisk \/ p = Zero

\* (meter.risk_percent || 0), the sort key.
SortKey(m) == RiskOrZero(m.risk_percent)

\* meter.risk_percent || meter.predictedFailureRisk || 0
AlarmRisk(m) ==
  IF ~ Falsy(m.risk_percent) THEN m.risk_percent
  ELSE IF ~ Falsy(m.predictedFailureRisk) THEN m.predictedFailureRisk
  ELSE Zero

\* Variant: position of list[i] when sorting lowest first.
RankAscending(list, i) ==
  1 + Cardinality({j \in DOMAIN list :
                     \/ RLt(SortKey(list[j]), SortKey(list[i]))
                     \/ SortKey(list[j]) = SortKey(list[i]) /\ j < i})

\* Position of list[i] after the stable sort with comparator
\* (b.risk_percent || 0) - (a.risk_percent || 0).
Rank(list, i) ==
  1 + Cardinality({j \in DOMAIN list :
                     \/ RLt(SortKey(list[i]), SortKey(list[j]))
                     \/ SortKey(list[j]) = SortKey(list[i]) /\ j < i})

SortedByRisk(list) ==
  LET rank == Tabulate([i \in DOMAIN list |-> Rank(list, i)], DOMAIN list)
  IN  [k \in 1..Len(list) |-> list[CHOOSE i \in DOMAIN list : rank[i] = k]]

\* .slice(0, n)
Slice(list, n) == SubSeq(list, 1, IF Len(list) < n THEN Len(list) ELSE n)

AlarmType(index) ==
  IF index = 0 THEN "high_consumption"
  ELSE IF index = 1 THEN "zero_consumption"
  ELSE << "anomaly", "spike", "high_consumption" >>[(index % 3) + 1]

\* The alarm pushed for the meter at position index (from 0) of the top list.
AlarmFor(meter, index) ==
  [id |-> << "alarm", meter.id >>,
   meterId |-> meter.id,
   type |-> AlarmType(index),
   severity |-> IF RLe(AlertThreshold, AlarmRisk(meter)) THEN "alert" ELSE "warning"]

generateAlarms(list) ==
  LET topRiskyMeters == Slice(SortedByRisk(list), TopCount)
  IN  [k \in 1..Len(topRiskyMeters) |-> AlarmFor(topRiskyMeters[k], k - 1)]

\* Meter lists: the meter at position i has risk 100 * v / MaxStride with
\* v = (a * i + b) mod (MaxStride + 1); v = 0 is a legacy meter without
\* risk_percent.
PatternRisk(a, b, i) ==
  LET v == (a * i + b) % (MaxStride + 1)
  IN  IF v = 0 THEN NoRisk ELSE Q(100 * v, MaxStride)

MeterLists ==
  {[i \in 1..n |->
      [id |-> i,
       risk_percent |-> PatternRisk(a, b, i),
       predictedFailureRisk |->
         IF PatternRisk(a, b, i) = NoRisk THEN << 90, 1 >> ELSE NoRisk]] :
     n \in 0..MaxMeters, a \in 0..MaxStride, b \in 0..MaxStride}

InitAlarms ==
  /\ RunStart
  /\ PageIdle
  /\ gamma = DefaultGamma
  /\ weights = DefaultWeights
  /\ al \in {[stage |-> "input", meters |-> l] : l \in MeterLists}
  /\ cmb = Idle /\ sc = Idle /\ peer = Idle
  /\ ind = Idle /\ mp = Idle /\ nrm = Idle /\ ui = Idle /\ wp = Idle

GenerateAlarms ==
  /\ al.stage = "input"
  /\ al' = [stage |-> "generated", meters |-> al.meters,
            alarms |-> generateAlarms(al.meters)]
  /\ UNCHANGED << runVars, pageVars, unitVars, ind, mp, nrm, ui, wp >>

NextAlarms == GenerateAlarms

SpecAlarms == InitAlarms /\ [][NextAlarms]_vars

\* ------------------------------------------------------------------------
\* Indicator to sub-score mappings applied to two inputs of one indicator
\* ------------------------------------------------------------------------
RatioSpan == 24
SlopeSpan == 10

\* R and delta_s in steps of 0.05, rel_slope in steps of 0.01.
RatioInputs == {Q(k, 20) : k \in (0 - RatioSpan)..RatioSpan}
SlopeInputs == {Q(k, 100) : k \in (0 - SlopeSpan)..SlopeSpan}

MappingInputs ==
  {[stage |-> "input", indicator |-> i, a |-> a, b |-> b] :
     i \in {"R", "delta_s"}, a \in RatioInputs, b \in RatioInputs}
  \cup {[stage |-> "input", indicator |-> "rel_slope", a |-> a, b |-> b] :
          a \in SlopeInputs, b \in SlopeInputs}

SubScore(indicator, v) ==
  IF indicator = "R" THEN ScoreFromRatio(v)
  ELSE IF indicator = "delta_s" THEN ScoreFromSlopeChange(v)
  ELSE ScoreFromSlope(v)

InitMapping ==
  /\ RunStart
  /\ PageIdle
  /\ gamma = DefaultGamma
  /\ weights = DefaultWeights
  /\ mp \in MappingInputs
  /\ cmb = Idle /\ sc = Idle /\ peer = Idle
  /\ ind = Idle /\ nrm = Idle /\ ui = Idle /\ al = Idle /\ wp = Idle

ApplyMapping ==
  /\ mp.stage = "input"
  /\ mp' = [stage |-> "mapped", indicator |-> mp.indicator, a |-> mp.a, b |-> mp.b,
            s_a |-> SubScore(mp.indicator, mp.a),
            s_b |-> SubScore(mp.indicator, mp.b)]
  /\ UNCHANGED << runVars, pageVars, unitVars, ind, nrm, ui, al, wp >>

NextMapping == ApplyMapping

SpecMapping == InitMapping /\ [][NextMapping]_vars

\* ------------------------------------------------------------------------
\* Two-pass normalisation with the per-meter work spread over a worker
\* pool: pass 1 computes the raw value of every meter, a single collective
\* pass reduces them, pass 2 rescales every meter
\* ------------------------------------------------------------------------
PoolSize == 2
PoolEps == << 1, 1000 >>

\* The raw per-meter value: the aggregated consumption of the period for
\* the peer median, subcount_score_raw for the min-max bounds.
RawValue(kind, x) ==
  IF kind = "peer_median" THEN SeqSum(x)
  ELSE MeterMetrics(DefaultWeights, x).subcount_score_raw

\* The values of the collection f over the meters S, in meter order.
RECURSIVE ValuesOf(_, _)
ValuesOf(f, S) ==
  IF S = {} THEN << >>
  ELSE LET e == CHOOSE e \in S : \A o \in S : e <= o
       IN  << f[e] >> \o ValuesOf(f, S \ {e})

\* The collective pass over the raw values collected so far.
Reduction(kind, raw) ==
  [over |-> DOMAIN raw,
   peer_median |-> IF kind = "peer_median" THEN Median(ValuesOf(raw, DOMAIN raw))
                   ELSE Zero,
   lo |-> MinOver(raw, DOMAIN raw),
   hi |-> MaxOver(raw, DOMAIN raw)]

Rescaled(kind, v, red) ==
  IF kind = "peer_median" THEN XNorm(v, red.peer_median, PoolEps)
  ELSE NormaliseOrDefault(v, red.lo, red.hi)

\* Variant: the reduction may start as soon as one raw value is there.
SomeRawComputed(w) == DOMAIN w.raw # {}

\* The barrier: every per-meter raw value is computed and no task runs.
AllRawComputed(w) == DOMAIN w.raw = w.meters /\ w.running = {}

PoolInputs ==
  {[stage |-> "pass1", kind |-> k, meters |-> DOMAIN f, input |-> f,
    running |-> {}, raw |-> << >>, reduction |-> << >>, norm |-> << >>] :
     k \in {"peer_median", "min_max"},
     f \in UNION {[1..n -> SeriesChoices \ {<< >>}] : n \in 1..Cardinality(MeterIds)}}

InitPool ==
  /\ RunStart
  /\ PageIdle
  /\ gamma = DefaultGamma
  /\ weights = DefaultWeights
  /\ wp \in PoolInputs
  /\ cmb = Idle /\ sc = Idle /\ peer = Idle
  /\ ind = Idle /\ mp = Idle /\ nrm = Idle /\ ui = Idle /\ al = Idle

\* A free worker takes the task of a meter.
StartTask ==
  /\ wp.stage \in {"pass1", "pass2"}
  /\ Cardinality(wp.running) < PoolSize
  /\ \E m \in wp.meters \ (wp.running \cup DOMAIN wp.raw) :
       wp' = [wp EXCEPT !.running = @ \cup {m}]
  /\ UNCHANGED << runVars, pageVars, unitVars, ind, mp, nrm, ui, al >>

\* A worker stores the raw value of its meter in the collection.
FinishTask ==
  /\ wp.stage \in {"pass1", "pass2"}
  /\ \E m \in wp.running :
       wp' = [wp EXCEPT !.running = @ \ {m},
                        !.raw = (m :> RawValue(wp.kind, wp.input[m])) @@ @]
  /\ UNCHANGED << runVars, pageVars, unitVars, ind, mp, nrm, ui, al >>

\* The collective pass: peer median or min/max of the collection.
Reduce ==
  /\ wp.stage = "pass1"
  /\ AllRawComputed(wp)
  /\ wp' = [wp EXCEPT !.stage = "pass2", !.reduction = Reduction(wp.kind, wp.raw)]
  /\ UNCHANGED << runVars, pageVars, unitVars, ind, mp, nrm, ui, al >>

\* Pass 2 on one meter.
RescaleMeter ==
  /\ wp.stage = "pass2"
  /\ \E m \in DOMAIN wp.raw \ DOMAIN wp.norm :
       wp' = [wp EXCEPT !.norm = (m :> Rescaled(wp.kind, wp.raw[m], wp.reduction)) @@ @]
  /\ UNCHANGED << runVars, pageVars, unitVars, ind, mp, nrm, ui, al >>

NextPool == StartTask \/ FinishTask \/ Reduce \/ RescaleMeter

SpecPool == InitPool /\ [][NextPool]_vars

\* ------------------------------------------------------------------------
\* Monthly aggregation of the daily consumption table
\* (_aggregate_monthly_consumption)
\* ------------------------------------------------------------------------
MaxDaily == 1
MinMonths == 2
AggMeters == {1, 2}
AggPeriods == {1, 2}
AggDays == {1, 2}

\* A daily table: consumo_real for some (meter_id, period, day).
DailyKeys == AggMeters \X AggPeriods \X AggDays
DailyTables == UNION {[K -> 0..MaxDaily] : K \in SUBSET DailyKeys}

RECURSIVE SumDaily(_, _)
SumDaily(daily, K) ==
  IF K = {} THEN 0
  ELSE LET k == CHOOSE k \in K : TRUE IN daily[k] + SumDaily(daily, K \ {k})

\* Variant: a zero row for every period in which a meter has no record.
AggregateFilled(daily) ==
  LET present == {k[1] : k \in DOMAIN daily}
  IN  [g \in present \X AggPeriods |->
         SumDaily(daily, {k \in DOMAIN daily : k[1] = g[1] /\ k[2] = g[2]})]

\* consumo = SUM(consumo_real) for each (meter_id, period) of the table.
Aggregate(daily) ==
  LET groups == {<< k[1], k[2] >> : k \in DOMAIN daily}
  IN  [g \in groups |->
         SumDaily(daily, {k \in DOMAIN daily : k[1] = g[1] /\ k[2] = g[2]})]

NumPeriods(rows, m) == Cardinality({g \in DOMAIN rows : g[1] = m})

\* Meters with fewer than min_months periods are still included.
MetersIncluded(rows, min_months) == {g[1] : g \in DOMAIN rows}

InitAgg ==
  /\ RunStart
  /\ gamma = DefaultGamma
  /\ weights = DefaultWeights
  /\ cmb = Idle /\ sc = Idle /\ peer = Idle
  /\ MoreIdle
  /\ agg \in {[stage |-> "input", daily |-> d] : d \in DailyTables}
  /\ ns = Idle /\ sheet = Idle /\ wmap = Idle

AggregateMonthly ==
  /\ agg.stage = "input"
  /\ agg' = [stage |-> "aggregated", daily |-> agg.daily,
             rows |-> Aggregate(agg.daily),
             included |-> MetersIncluded(Aggregate(agg.daily), MinMonths)]
  /\ UNCHANGED << runVars, unitVars, moreVars, ns, sheet, wmap >>

NextAgg == AggregateMonthly

SpecAgg == InitAgg /\ [][NextAgg]_vars

\* ------------------------------------------------------------------------
\* Peer normalisation of one period with global or cluster peers: the rows
\* of the normalised series (_compute_peer_normalisation)
\* ------------------------------------------------------------------------
NoLabel == 0
ClusterLabels == {NoLabel, 1, 2}

\* The peers of meter m in the period: all meters with a row (global
\* peers), or those with m's cluster label (cluster peers).
PeerGroup(mode, lab, con, m) ==
  IF mode = "global" THEN DOMAIN con
  ELSE {o \in DOMAIN con : lab[m] # NoLabel /\ lab[o] = lab[m]}

PeerMedian(mode, lab, con, m) ==
  IF PeerGroup(mode, lab, con, m) = {} THEN NotANumber
  ELSE Median(ValuesOf(con, PeerGroup(mode, lab, con, m)))

\* Variant: a row for every (meter, period) of the aggregated table.
RowAlwaysEmitted(v, med, peers) == TRUE

\* No row without eligible peers, nor when the peer median and the volume
\* are both exactly 0.
RowEmitted(v, med, peers) == peers # {} /\ ~ (med = Zero /\ v = Zero)

NormalizedRows(mode, lab, con, eps) ==
  LET emitted == {m \in DOMAIN con :
                    RowEmitted(con[m], PeerMedian(mode, lab, con, m),
                               PeerGroup(mode, lab, con, m))}
  IN  Tabulate([m \in emitted |->
                  [consumo |-> con[m],
                   peer_median |-> PeerMedian(mode, lab, con, m),
                   x_norm |-> XNorm(con[m], PeerMedian(mode, lab, con, m), eps)]],
               emitted)

NsInputs ==
  {[stage |-> "input", mode |-> md, labels |-> lab, consumo |-> con, eps |-> e] :
     md \in {"global", "cluster"}, e \in EpsChoices,
     con \in PeriodTables \cup {<< >>},
     lab \in [MeterIds -> ClusterLabels]}

InitNs ==
  /\ RunStart
  /\ gamma = DefaultGamma
  /\ weights = DefaultWeights
  /\ cmb = Idle /\ sc = Idle /\ peer = Idle
  /\ MoreIdle
  /\ ns \in NsInputs
  /\ agg = Idle /\ sheet = Idle /\ wmap = Idle

ComputePeerNormalisation ==
  /\ ns.stage = "input"
  /\ ns' = [stage |-> "normalised", mode |-> ns.mode, labels |-> ns.labels,
            consumo |-> ns.consumo, eps |-> ns.eps,
            rows |-> NormalizedRows(ns.mode, ns.labels, ns.consumo, ns.eps)]
  /\ UNCHANGED << runVars, unitVars, moreVars, agg, sheet, wmap >>

NextNs == ComputePeerNormalisation

SpecNs == InitNs /\ [][NextNs]_vars

\* ------------------------------------------------------------------------
\* InsightsSheet: the alarm panel.  A state is the component after a render
\* and after the effects of that render have run.  The props are isOpen and
\* meters; the state is alarms, selectedAlarm, isPlayingVoice and synth.  The
\* speech engine holds the utterances handed to speak() and not yet ended or
\* cancelled (queued), and the end/error events it has fired that the page
\* has not handled yet (events).
\* ------------------------------------------------------------------------
SheetRisks == 2
MaxQueued == 2
MaxEvents == 2

\* useState<Alarm | null>(null)
NoAlarm == [id |-> << >>, meterId |-> 0, type |-> "none", severity |-> "none"]

SheetMeter(i, v) ==
  [id |-> i, risk_percent |-> Q(100 * v, SheetRisks + 1),
   predictedFailureRisk |-> NoRisk]

\* The meter lists the parent page can hand to the sheet: none, meter 1, or
\* meters 1 and 2, with risks on a grid.
SheetMeterLists ==
  {<< >>}
    \cup {<< SheetMeter(1, v) >> : v \in 1..SheetRisks}
    \cup {<< SheetMeter(1, v), SheetMeter(2, w) >> :
            v \in 1..SheetRisks, w \in 1..SheetRisks}

\* setSelectedAlarm(prev => ...): the previous selection is kept, as the
\* object it is, when an alarm with its id is among the generated ones.
KeepOrFirst(prev, generatedAlarms) ==
  IF /\ prev # NoAlarm
     /\ \E k \in DOMAIN generatedAlarms : generatedAlarms[k].id = prev.id
    THEN prev
    ELSE generatedAlarms[1]

\* The effect on [isOpen, meters]: the alarms and the selection after it.
AlarmEffect(isOpen, list, alarms, prev) ==
  IF isOpen /\ Len(list) > 0
    THEN LET generatedAlarms == generateAlarms(list)
         IN  [alarms |-> generatedAlarms,
              selectedAlarm |->
                IF Len(generatedAlarms) > 0
                  THEN KeepOrFirst(prev, generatedAlarms)
                  ELSE NoAlarm]
    ELSE IF ~ isOpen
      THEN [alarms |-> << >>, selectedAlarm |-> NoAlarm]
      ELSE [alarms |-> alarms, selectedAlarm |-> prev]

\* synth.cancel(): the queue is emptied and the engine fires an event for
\* each utterance it drops.
Cancelled(s) ==
  [s EXCEPT !.queued = 0,
            !.events = IF s.events + s.queued > MaxEvents
                         THEN MaxEvents ELSE s.events + s.queued]

\* The effect on [isOpen, synth, isPlayingVoice].
StopSpeechEffect(s) ==
  IF ~ s.isOpen /\ s.synth /\ s.isPlayingVoice
    THEN [Cancelled(s) EXCEPT !.isPlayingVoice = FALSE]
    ELSE s

\* The effects of a render, in the order they are declared.
RunEffects(s, prev) ==
  LET a == AlarmEffect(s.isOpen, s.meters, s.alarms, prev)
  IN  StopSpeechEffect([s EXCEPT !.alarms = a.alarms,
                                 !.selectedAlarm = a.selectedAlarm])

Mounted(supported, list) ==
  [stage |-> "mounted", isOpen |-> FALSE, meters |-> list,
   alarms |-> << >>, selectedAlarm |-> NoAlarm, isPlayingVoice |-> FALSE,
   synth |-> supported, queued |-> 0, events |-> 0]

InitSheet ==
  /\ RunStart
  /\ gamma = DefaultGamma
  /\ weights = DefaultWeights
  /\ cmb = Idle /\ sc = Idle /\ peer = Idle
  /\ MoreIdle
  /\ sheet \in {Mounted(sup, l) : sup \in BOOLEAN, l \in SheetMeterLists}
  /\ agg = Idle /\ ns = Idle /\ wmap = Idle

SheetKeeps == UNCHANGED << runVars, unitVars, moreVars, agg, ns, wmap >>

\* The parent sets isOpen to true.
OpenSheet ==
  /\ ~ sheet.isOpen
  /\ sheet' = RunEffects([sheet EXCEPT !.isOpen = TRUE], sheet.selectedAlarm)
  /\ SheetKeeps

\* onClose, from the backdrop or the close button.
CloseSheet ==
  /\ sheet.isOpen
  /\ sheet' = RunEffects([sheet EXCEPT !.isOpen = FALSE], sheet.selectedAlarm)
  /\ SheetKeeps

\* The parent passes another meter list.
UpdateMeters ==
  /\ \E l \in SheetMeterLists :
       /\ l # sheet.meters
       /\ sheet' = RunEffects([sheet EXCEPT !.meters = l], sheet.selectedAlarm)
  /\ SheetKeeps

\* onClick={() => setSelectedAlarm(alarm)} on an entry of the rendered list.
SelectAlarm ==
  /\ sheet.isOpen
  /\ \E k \in DOMAIN sheet.alarms :
       sheet' = [sheet EXCEPT !.selectedAlarm = sheet.alarms[k]]
  /\ SheetKeeps

\* handlePlayVoice, from the button of the selected alarm's panel.
PlayVoice ==
  /\ sheet.isOpen
  /\ sheet.selectedAlarm # NoAlarm
  /\ sheet.synth
  /\ sheet.queued < MaxQueued
  /\ sheet' = IF sheet.isPlayingVoice
                THEN [Cancelled(sheet) EXCEPT !.isPlayingVoice = FALSE]
                ELSE [sheet EXCEPT !.queued = sheet.queued + 1,
                                   !.isPlayingVoice = TRUE]
  /\ SheetKeeps

\* The engine finishes the utterance it is speaking and fires its end event.
UtteranceEnds ==
  /\ sheet.queued > 0
  /\ sheet.events < MaxEvents
  /\ sheet' = [sheet EXCEPT !.queued = sheet.queued - 1,
                            !.events = sheet.events + 1]
  /\ SheetKeeps

\* utterance.onend / utterance.onerror: setIsPlayingVoice(false).
UtteranceEvent ==
  /\ sheet.events > 0
  /\ sheet' = StopSpeechEffect([sheet EXCEPT !.events = sheet.events - 1,
                                             !.isPlayingVoice = FALSE])
  /\ SheetKeeps

NextSheet ==
  \/ OpenSheet
  \/ CloseSheet
  \/ UpdateMeters
  \/ SelectAlarm
  \/ PlayVoice
  \/ UtteranceEnds
  \/ UtteranceEvent

SpecSheet == InitSheet /\ [][NextSheet]_vars

\* ------------------------------------------------------------------------
\* WaterMeterMap inside the Index page.  A state is the page after a render
\* and after the effects of that render have run.  Index holds filterStatus
\* and passes it down together with handleMetersChange, a function created
\* anew at each render of Index.  The map component holds viewMode, the refs
\* map and mapInitialized, the Mapbox instance and its meter layers, and the
\* loadData calls whose fetch has not returned yet.
\* ------------------------------------------------------------------------
MaxFetches == 3

Statuses == {"normal", "warning", "alert"}
ViewModes == {"meters", "sections", "both"}

\* useState of Index and the default of the viewMode prop.
InitialFilterStatus == [s \in Statuses |-> TRUE]
InitialViewMode == "meters"

\* Whether circle-opacity is non-zero for a layer under a filter and a view.
Visible(filterStatus, viewMode, s) == filterStatus[s] /\ viewMode # "sections"

\* The opacity set at layer creation by the 'load' handler, a closure of the
\* render in which the map was created.
OpacityAtCreation(s) == Visible(InitialFilterStatus, InitialViewMode, s)

\* The effect on [filterStatus, viewMode]: setPaintProperty on the layers
\* that exist, nothing before the 'load' event.
FilterEffect(w) ==
  IF ~ w.mapRef \/ ~ w.mapInitialized \/ w.mapStage # "layers"
    THEN w
    ELSE [w EXCEPT !.opacity =
            [s \in Statuses |-> Visible(w.filterStatus, w.viewMode, s)]]

\* The effect on [onMetersChange]: loadData() starts a fetch.
LoadDataEffect(w) ==
  [w EXCEPT !.fetches = w.fetches + 1, !.inflight = w.inflight + 1]

\* The cleanup of the map effect.
MapCleanup(w) ==
  IF w.mapRef /\ w.mapInitialized
    THEN [w EXCEPT !.alive = 0, !.mapInitialized = FALSE]
    ELSE w

\* The page after its first render: the map is created and waits for its
\* style, loadData has started its first fetch.
MapMounted ==
  [stage |-> "mounted", filterStatus |-> InitialFilterStatus,
   viewMode |-> InitialViewMode, mapRef |-> TRUE, mapInitialized |-> FALSE,
   alive |-> 1, mapStage |-> "style", opacity |-> [s \in Statuses |-> FALSE],
   fetches |-> 1, inflight |-> 1, userActed |-> FALSE]

InitMap ==
  /\ RunStart
  /\ gamma = DefaultGamma
  /\ weights = DefaultWeights
  /\ cmb = Idle /\ sc = Idle /\ peer = Idle
  /\ MoreIdle
  /\ wmap = MapMounted
  /\ agg = Idle /\ ns = Idle /\ sheet = Idle

MapKeeps == UNCHANGED << runVars, unitVars, moreVars, agg, ns, sheet >>

\* A header filter button: Index renders again, with a new filterStatus and
\* a new handleMetersChange.
ToggleFilter ==
  /\ wmap.stage = "mounted"
  /\ wmap.fetches < MaxFetches
  /\ \E s \in Statuses :
       wmap' = FilterEffect(LoadDataEffect(
                 [wmap EXCEPT !.filterStatus[s] = ~ wmap.filterStatus[s],
                              !.userActed = TRUE]))
  /\ MapKeeps

\* A view mode button of the map component.
SetViewMode ==
  /\ wmap.stage = "mounted"
  /\ \E v \in ViewModes :
       /\ v # wmap.viewMode
       /\ wmap' = FilterEffect([wmap EXCEPT !.viewMode = v, !.userActed = TRUE])
  /\ MapKeeps

\* The map's 'load' event, up to the first await of its handler.
MapLoad ==
  /\ wmap.stage # "idle"
  /\ wmap.alive > 0
  /\ wmap.mapStage = "style"
  /\ wmap' = [wmap EXCEPT !.mapInitialized = TRUE, !.mapStage = "fetching"]
  /\ MapKeeps

\* The handler's fetch returns: the source and the three layers are added,
\* unless the fetch failed or the map was removed meanwhile.
AddLayers ==
  /\ wmap.stage # "idle"
  /\ wmap.mapStage = "fetching"
  /\ \E ok \in BOOLEAN :
       wmap' = IF ok /\ wmap.alive > 0
                 THEN [wmap EXCEPT
                         !.mapStage = "layers",
                         !.opacity = [s \in Statuses |-> OpacityAtCreation(s)]]
                 ELSE [wmap EXCEPT !.mapStage = "failed"]
  /\ MapKeeps

\* A loadData fetch returns the meters: setMeters, then onMetersChange hands
\* them to Index, which renders again with a new handleMetersChange.
HandMetersToParent ==
  /\ wmap.stage # "idle"
  /\ wmap.inflight > 0
  /\ wmap.stage = "mounted" => wmap.fetches < MaxFetches
  /\ wmap' = IF wmap.stage = "mounted"
               THEN LoadDataEffect([wmap EXCEPT !.inflight = wmap.inflight - 1])
               ELSE [wmap EXCEPT !.inflight = wmap.inflight - 1]
  /\ MapKeeps

\* A loadData fetch fails: the catch branch, setLoading(false).
LoadDataFails ==
  /\ wmap.stage # "idle"
  /\ wmap.inflight > 0
  /\ wmap' = [wmap EXCEPT !.inflight = wmap.inflight - 1]
  /\ MapKeeps

\* The page is left.
UnmountMap ==
  /\ wmap.stage = "mounted"
  /\ wmap' = MapCleanup([wmap EXCEPT !.stage = "unmounted"])
  /\ MapKeeps

NextMap ==
  \/ ToggleFilter
  \/ SetViewMode
  \/ MapLoad
  \/ AddLayers
  \/ HandMetersToParent
  \/ LoadDataFails
  \/ UnmountMap

SpecMap == InitMap /\ [][NextMap]_vars

\* ------------------------------------------------------------------------
\* Properties
\* ------------------------------------------------------------------------
Combined == cmb.stage = "combined"
Rows == {output[i] : i \in 1..Len(output)}

\* C1: for every gamma, subcount_score and p_cluster in [0, 1] the final
\* risk is at least the base risk: risk_percent >= risk_percent_base.
C1_FinalAtLeastBase ==
  Combined => RLe(cmb.risk_percent_base, cmb.risk_percent)

C1_Witness ==
  /\ Combined
  /\ RLt(Zero, cmb.gamma) /\ RLt(Zero, cmb.subcount_score)
  /\ RLt(Zero, cmb.p_cluster) /\ RLt(cmb.p_cluster, One)
  /\ RLt(cmb.risk_percent_base, cmb.risk_percent)

\* C2 (as stated): in the output table risk_percent equals
\* risk_percent_base if and only if subcount_score is 0.
C2_EqualIffNoSubcount ==
  pc = "done" =>
    \A r \in Rows : (r.risk_percent = r.risk_percent_base) <=> (r.subcount_score = Zero)

\* C2 (amended): risk_percent equals risk_percent_base if and only if
\* subcount_score is 0, or gamma is 0, or the base risk is already 100.
C2_EqualIffNoContribution ==
  pc = "done" =>
    \A r \in Rows :
      (r.risk_percent = r.risk_percent_base)
        <=> (r.subcount_score = Zero \/ gamma = Zero \/ r.risk_percent_base = Hundred)

C2_Witness ==
  /\ pc = "done"
  /\ \E r \in Rows : /\ r.subcount_score # Zero
                     /\ r.risk_percent_base = Hundred
                     /\ r.risk_percent = r.risk_percent_base
  /\ \E r \in Rows : /\ r.subcount_score # Zero
                     /\ RLt(r.risk_percent_base, r.risk_percent)

C4_OptionAFormula ==
  Combined =>
    LET g == cmb.gamma[1] * (GridDen \div cmb.gamma[2])
        p == cmb.p_cluster[1] * (GridDen \div cmb.p_cluster[2])
        u == cmb.subcount_score[1] * (GridDen \div cmb.subcount_score[2])
        cube == GridDen * GridDen * GridDen
    IN  /\ cmb.risk_percent_base = Q(100 * p, GridDen)
        /\ cmb.risk_percent
             = Q(100 * (cube - (GridDen - p) * (GridDen * GridDen - g * u)), cube)
        /\ (cmb.p_cluster = << 1, 5 >> /\ cmb.subcount_score = One
              /\ cmb.gamma = << 4, 5 >>)
             => (cmb.risk_percent_base = << 20, 1 >> /\ cmb.risk_percent = << 84, 1 >>)

C4_Witness ==
  /\ Combined
  /\ cmb.p_cluster = << 1, 5 >> /\ cmb.subcount_score = One /\ cmb.gamma = << 4, 5 >>
  /\ cmb.risk_percent = << 84, 1 >>

Increase == RSub(cmb.risk_percent, cmb.risk_percent_base)
GammaCap == ToPercent(cmb.gamma)

\* C5 (as stated): the increase risk_percent - risk_percent_base is at most
\* 100 * gamma, attained only when p_cluster = 0 and subcount_score = 1; a
\* meter with base risk 0 never exceeds 100 * gamma.
C5_GammaCapAttainedOnlyAtCorner ==
  Combined =>
    /\ RLe(Increase, GammaCap)
    /\ (cmb.p_cluster = Zero => RLe(cmb.risk_percent, GammaCap))
    /\ (Increase = GammaCap => (cmb.p_cluster = Zero /\ cmb.subcount_score = One))

\* C5 (amended): the increase is at most 100 * gamma and a meter with base
\* risk 0 never exceeds 100 * gamma; the cap is attained exactly when
\* gamma = 0, or p_cluster = 0 and subcount_score = 1.
C5_GammaCap ==
  Combined =>
    /\ RLe(Increase, GammaCap)
    /\ (cmb.p_cluster = Zero => RLe(cmb.risk_percent, GammaCap))
    /\ (Increase = GammaCap
          <=> (cmb.gamma = Zero \/ (cmb.p_cluster = Zero /\ cmb.subcount_score = One)))

C5_Witness ==
  /\ Combined
  /\ cmb.p_cluster = Zero /\ cmb.subcount_score = One
  /\ RLt(Zero, cmb.gamma) /\ RLt(cmb.gamma, One)
  /\ cmb.risk_percent = GammaCap

Scored == sc.stage = "scored"
StrictlyAbove07(s) == 10 * s[1] > 7 * s[2]
NumAbove07 ==
  Cardinality({i \in 1..3 : StrictlyAbove07(<< sc.s_R, sc.s_T, sc.s_delta >>[i])})
PlainWeightedSum ==
  RAdd(RAdd(RMul(sc.weights.w_ratio, sc.s_R), RMul(sc.weights.w_trend, sc.s_T)),
       RMul(sc.weights.w_slope_change, sc.s_delta))

\* C6: for every choice of weights, if at least two of (s_R, s_T, s_delta)
\* are strictly greater than 0.7 then subcount_score_raw >= 0.7; if fewer
\* than two exceed 0.7 the raw score is exactly the weighted sum.
C6_ReinforcementFloor ==
  Scored =>
    /\ NumAbove07 >= 2 => RLe(<< 7, 10 >>, sc.subcount_score_raw)
    /\ NumAbove07 < 2 => sc.subcount_score_raw = PlainWeightedSum

C6_Witness ==
  /\ Scored
  /\ sc.weights.w_ratio = Zero /\ sc.weights.w_trend = Zero
  /\ sc.weights.w_slope_change = Zero
  /\ NumAbove07 = 2
  /\ sc.subcount_score_raw = << 7, 10 >>

\* Raw values entering the four population-wide normalisations of a run.
AllEqual(f, S) == \A a \in S : \A b \in S : f[a] = f[b]
AllZero(f, S) == \A a \in S : f[a] = Zero
RawSubcount == [m \in DOMAIN df_sub |-> df_sub[m].subcount_score_raw]
NormSubcount == [m \in DOMAIN df_sub |-> df_sub[m].subcount_score]
AfterAnomaly == pc \in {"anomaly", "degradation", "base", "subcount", "combined", "done"}
AfterDegradation == pc \in {"degradation", "base", "subcount", "combined", "done"}
AfterBase == pc \in {"base", "subcount", "combined", "done"}
AfterSubcount == pc \in {"subcount", "combined", "done"}

\* C7: when all raw scores of a population are identical (max = min,
\* including a population of one meter) the normalised score is 0 for every
\* member, and the run goes on to emit a full risk table of numbers.
C7_DegenerateNormalisation ==
  /\ (AfterAnomaly /\ AllEqual(CentroidDistance(latent, cluster_id, meters), meters))
       => AllZero(anomaly_score, meters)
  /\ (AfterDegradation
        /\ AllEqual(DegradationIndex(age, canya, cluster_id, meters),
                    ClustersOf(cluster_id, meters)))
       => AllZero(cluster_degradation, ClustersOf(cluster_id, meters))
  /\ (AfterBase
        /\ AllEqual(BaseRiskRaw(anomaly_score, cluster_degradation, cluster_id, meters),
                    meters))
       => AllZero(p_cluster, meters)
  /\ (AfterSubcount /\ AllEqual(RawSubcount, DOMAIN df_sub))
       => AllZero(NormSubcount, DOMAIN df_sub)
  /\ pc = "done" =>
       /\ error = "none"
       /\ {r.meter_id : r \in Rows} = meters
       /\ \A r \in Rows : /\ IsNumber(r.anomaly_score)
                          /\ IsNumber(r.cluster_degradation)
                          /\ IsNumber(r.subcount_score)
                          /\ IsNumber(r.risk_percent_base)
                          /\ IsNumber(r.risk_percent)

C7_Witness ==
  /\ pc = "done"
  /\ Cardinality(meters) = 3
  /\ Cardinality(DOMAIN df_sub) = 3
  /\ AllEqual(RawSubcount, DOMAIN df_sub)
  /\ \E m \in DOMAIN df_sub : df_sub[m].subcount_score_raw # Zero
  /\ AllZero(NormSubcount, DOMAIN df_sub)
  /\ Len(output) = 3

Ended == pc \in {"done", "aborted"}

RunOutcome ==
  /\ attempts <= 1
  /\ pc = "done" =>
       /\ error = "none"
       /\ Len(output) = Cardinality(meters)
       /\ {r.meter_id : r \in Rows} = meters
  /\ pc = "aborted" => (error # "none" /\ output = << >>)
  /\ pc # "done" => output = << >>

RunStep ==
  /\ ~ Ended
  /\ attempts' # attempts => (pc = "start" /\ attempts = 0)
  /\ output' # output => pc' = "done"
  /\ error' # error => pc' = "aborted"

\* C8: a run ends either completed, with a risk table holding a record for
\* every meter, or aborted with a reported fatal error and no output; no
\* partial table is ever written, nothing happens after either outcome, and
\* the inputs are read at most once.
C8_AllOrNothing == [] RunOutcome /\ [][RunStep]_vars

C8_Witness ==
  /\ pc = "aborted"
  /\ error = "MissingUpstreamInputError"
  /\ Cardinality(meters) = 3
  /\ p_cluster # << >>
  /\ output = << >>

RowOf(m) == CHOOSE r \in Rows : r.meter_id = m
NumRowsOf(m) == Cardinality({i \in 1..Len(output) : output[i].meter_id = m})
MinHistory == Windows.recent_window + Windows.baseline_window

\* C9 (as stated): a meter with an empty or too-short consumption history
\* has no SubcountingMetrics row but is in the final table with
\* subcount_score = 0 and risk_percent = risk_percent_base.
C9_ShortOrEmptyExcluded ==
  pc = "done" =>
    \A m \in meters :
      Len(series[m]) < MinHistory =>
        /\ m \notin DOMAIN df_sub
        /\ NumRowsOf(m) = 1
        /\ RowOf(m).subcount_score = Zero
        /\ RowOf(m).risk_percent = RowOf(m).risk_percent_base

\* C9 (amended): no meter is dropped.  A meter with an empty history has no
\* SubcountingMetrics row and is in the final table with subcount_score = 0
\* and risk_percent = risk_percent_base; a meter with a non-empty but
\* too-short history keeps its metrics row, with neutral R = 1 and s_R = 0,
\* and is in the final table with the subcount_score of that row.
C9_NoMeterDropped ==
  pc = "done" =>
    \A m \in meters :
      /\ NumRowsOf(m) = 1
      /\ Len(series[m]) = 0 =>
           /\ m \notin DOMAIN df_sub
           /\ RowOf(m).subcount_score = Zero
           /\ RowOf(m).risk_percent = RowOf(m).risk_percent_base
      /\ (0 < Len(series[m]) /\ Len(series[m]) < MinHistory) =>
           /\ m \in DOMAIN df_sub
           /\ df_sub[m].R = One /\ df_sub[m].s_R = Zero
           /\ RowOf(m).subcount_score = df_sub[m].subcount_score

C9_Witness ==
  /\ pc = "done"
  /\ \E m \in meters : Len(series[m]) = 0 /\ RowOf(m).subcount_score = Zero
  /\ \E m \in meters :
       /\ 0 < Len(series[m]) /\ Len(series[m]) < MinHistory
       /\ RLt(Zero, RowOf(m).subcount_score)
       /\ RLt(RowOf(m).risk_percent_base, RowOf(m).risk_percent)

Scaled == peer.stage = "scaled"

\* C10 (as stated): multiplying every meter's consumption in a period by
\* the same positive constant leaves every x_norm of the period unchanged.
C10_ScalingLeavesXNormUnchanged ==
  Scaled => \A m \in DOMAIN peer.consumo : peer.x_norm_scaled[m] = peer.x_norm[m]

\* C10 (amended): with the fixed positive eps, multiplying every meter's
\* consumption in a period by c > 0 leaves a meter's x_norm unchanged
\* exactly when c = 1 or the meter's consumption is 0; the ranking of the
\* meters of the period by x_norm is unchanged.
C10_ScalingKeepsRanking ==
  Scaled =>
    /\ \A m \in DOMAIN peer.consumo :
         (peer.x_norm_scaled[m] = peer.x_norm[m])
           <=> (peer.scale = 1 \/ peer.consumo[m] = Zero)
    /\ \A a \in DOMAIN peer.consumo : \A b \in DOMAIN peer.consumo :
         RLe(peer.x_norm[a], peer.x_norm[b])
           <=> RLe(peer.x_norm_scaled[a], peer.x_norm_scaled[b])

C10_Witness ==
  /\ Scaled
  /\ peer.scale = 2
  /\ Len(peer.consumo) = 3
  /\ \E m \in DOMAIN peer.consumo :
       peer.consumo[m] # Zero /\ RLt(peer.x_norm[m], peer.x_norm_scaled[m])
  /\ \E m \in DOMAIN peer.consumo :
       peer.consumo[m] = Zero /\ peer.x_norm_scaled[m] = peer.x_norm[m]

Measured == ind.stage = "measured"
FlatPositive(x) == \A i \in 1..Len(x) : x[i] = x[1] /\ RLt(Zero, x[i])

\* C11: a meter whose x_norm series is the same positive constant in every
\* period, whatever its length (shorter than baseline_window +
\* recent_window included), gets R = 1, slope = 0 and delta_s = 1, hence
\* s_R = s_T = s_delta = 0 and subcount_score_raw = 0.
C11_FlatSeriesNeutral ==
  (Measured /\ FlatPositive(ind.x)) =>
    /\ ind.metrics.R = One
    /\ ind.metrics.slope = Zero
    /\ ind.metrics.delta_s = One
    /\ ind.metrics.s_R = Zero /\ ind.metrics.s_T = Zero /\ ind.metrics.s_delta = Zero
    /\ ind.metrics.subcount_score_raw = Zero

C11_Witness ==
  /\ Measured
  /\ FlatPositive(ind.x)
  /\ Len(ind.x) < Windows.recent_window + Windows.baseline_window
  /\ ind.weights = UnitWeights
  /\ ind.metrics.subcount_score_raw = Zero

SpansUnit(f) == MinOver(f, DOMAIN f) = Zero /\ MaxOver(f, DOMAIN f) = One

\* C12: min-max normalisation applied to a population whose minimum is 0
\* and whose maximum is 1 returns every value unchanged, so normalising an
\* already-normalised population a second time changes nothing.
C12_NormalisationIdempotent ==
  /\ (nrm.stage \in {"normalised", "renormalised"} /\ SpansUnit(nrm.values))
       => nrm.normalised = nrm.values
  /\ (nrm.stage = "renormalised" /\ SpansUnit(nrm.normalised))
       => nrm.again = nrm.normalised

C12_Witness ==
  /\ nrm.stage = "renormalised"
  /\ Len(nrm.values) = 3
  /\ ~ SpansUnit(nrm.values)
  /\ SpansUnit(nrm.normalised)
  /\ \E m \in DOMAIN nrm.normalised :
       RLt(Zero, nrm.normalised[m]) /\ RLt(nrm.normalised[m], One)
  /\ nrm.again = nrm.normalised

C15_SortedByRiskDescending ==
  pc = "done" =>
    \A i \in 1..(Len(output) - 1) :
      RLe(output[i + 1].risk_percent, output[i].risk_percent)

C15_Witness ==
  /\ pc = "done"
  /\ Len(output) = 3
  /\ RLt(output[2].risk_percent, output[1].risk_percent)
  /\ RLt(output[3].risk_percent, output[2].risk_percent)
  /\ output[1].meter_id > output[2].meter_id

\* The bucket of a risk under the convention: >= 80 alert, >= 50 warning,
\* otherwise normal.
BucketOf(risk) ==
  IF risk[1] >= 80 * risk[2] THEN "alert"
  ELSE IF risk[1] >= 50 * risk[2] THEN "warning"
  ELSE "normal"

\* C14: every place that derives a meter's status (map data load, map click
\* handler, mock meter generator) gives alert for risk_percent >= 80,
\* warning for 50 <= risk_percent < 80 and normal below 50, so that exactly
\* 80 is alert and exactly 50 is warning.
C14_StatusBucketing ==
  ui.stage = "derived" => ui.status = BucketOf(ui.risk_percent)

\* The mock generator at exactly 80: one bucket below the load and click
\* sites.
C14_Witness ==
  /\ ui.stage = "derived"
  /\ ui.site = "generateMockMeters"
  /\ ui.risk_percent = AlertThreshold
  /\ ui.status = "warning"
  /\ StatusFromRisk(ui.risk_percent) = "alert"

Generated == al.stage = "generated"
AlarmIds == {al.alarms[k].meterId : k \in 1..Len(al.alarms)}
MeterOf(id) == al.meters[id]

Mapped == mp.stage = "mapped"

\* The stated piecewise-linear value for a ratio (R or delta_s): 1 up to
\* 0.5, 0 from 0.8, (0.8 - v) / 0.3 in between.
StatedRatioScore(v) ==
  IF 2 * v[1] <= v[2] THEN One
  ELSE IF 5 * v[1] >= 4 * v[2] THEN Zero
  ELSE Q(8 * v[2] - 10 * v[1], 3 * v[2])

\* The stated value for rel_slope: 0 from 0, 1 up to -0.05, -20 * v between.
StatedSlopeScore(v) ==
  IF v[1] >= 0 THEN Zero
  ELSE IF 20 * v[1] <= 0 - v[2] THEN One
  ELSE Q(0 - 20 * v[1], v[2])

\* C17: each of the three indicator to sub-score mappings is within [0, 1],
\* monotone non-increasing in its input, and has the configured
\* breakpoints: s_R = 1 for R <= 0.5 and 0 for R >= 0.8, linear between
\* (R = 0.4 gives 1); s_delta likewise on delta_s; s_T = 0 for
\* rel_slope >= 0 and 1 for rel_slope <= -0.05, linear between.
C17_SubScoreMappings ==
  Mapped =>
    /\ InUnit(mp.s_a) /\ InUnit(mp.s_b)
    /\ RLe(mp.a, mp.b) => RLe(mp.s_b, mp.s_a)
    /\ mp.indicator \in {"R", "delta_s"} => mp.s_a = StatedRatioScore(mp.a)
    /\ mp.indicator = "rel_slope" => mp.s_a = StatedSlopeScore(mp.a)
    /\ (mp.indicator = "R" /\ mp.a = << 2, 5 >>) => mp.s_a = One

C17_Witness ==
  /\ Mapped
  /\ mp.indicator = "R"
  /\ mp.a = << 2, 5 >> /\ mp.s_a = One
  /\ mp.b = << 13, 20 >> /\ mp.s_b = << 1, 2 >>

TooShort(x) == Len(x) < Windows.recent_window + Windows.baseline_window
BaselineOf(x) ==
  SubSeq(x, Len(x) - Windows.recent_window - Windows.baseline_window + 1,
         Len(x) - Windows.recent_window)
FirstHalfSlope(x) == TrendSlope(SubSeq(x, 1, Len(x) \div 2))
SecondHalfSlope(x) == TrendSlope(SubSeq(x, (Len(x) \div 2) + 1, Len(x)))

\* C18: a meter with fewer than recent_window + baseline_window periods, or
\* whose baseline mean is 0, gets R = 1 and s_R = 0; a meter whose
\* first-half slope is negligible gets delta_s = 1 and s_delta = 0; in both
\* cases the meter keeps its metrics row, with its period count and trend
\* slope computed.
C18_InsufficientDataNeutral ==
  Measured =>
    /\ (TooShort(ind.x) \/ SeqMean(BaselineOf(ind.x)) = Zero)
         => (ind.metrics.R = One /\ ind.metrics.s_R = Zero)
    /\ FirstHalfSlope(ind.x) = Zero
         => (ind.metrics.delta_s = One /\ ind.metrics.s_delta = Zero)
    /\ ind.metrics.n_periods = Len(ind.x)
    /\ ind.metrics.slope = TrendSlope(ind.x)
    /\ IsNumber(ind.metrics.R) /\ IsNumber(ind.metrics.slope)
    /\ IsNumber(ind.metrics.delta_s)

C18_Witness ==
  /\ Measured
  /\ TooShort(ind.x)
  /\ FirstHalfSlope(ind.x) = Zero
  /\ ind.metrics.R = One /\ ind.metrics.delta_s = One
  /\ RLt(ind.metrics.slope, Zero)
  /\ ind.metrics.s_T = One
  /\ RLt(Zero, ind.metrics.subcount_score_raw)

\* C19: for every series whose first-half slope s_first is not negligible,
\* delta_s = s_second / s_first is below 1 exactly when s_second < s_first,
\* and a decline that is steeper in the second half than in the first is
\* scored as a slowdown (s_delta > 0).
C19_SlopeChangeReading ==
  (Measured /\ FirstHalfSlope(ind.x) # Zero) =>
    /\ RLt(ind.metrics.delta_s, One)
         <=> RLt(SecondHalfSlope(ind.x), FirstHalfSlope(ind.x))
    /\ (RLt(FirstHalfSlope(ind.x), Zero)
          /\ RLt(SecondHalfSlope(ind.x), FirstHalfSlope(ind.x)))
         => RLt(Zero, ind.metrics.s_delta)

\* A decline that accelerates in the second half and is scored neutral.
C19_Witness ==
  /\ Measured
  /\ RLt(FirstHalfSlope(ind.x), Zero)
  /\ RLt(SecondHalfSlope(ind.x), FirstHalfSlope(ind.x))
  /\ RLt(One, ind.metrics.delta_s)
  /\ ind.metrics.s_delta = Zero

\* Raw values and reduction of the whole population, from the inputs.
FullRaw == [m \in wp.meters |-> RawValue(wp.kind, wp.input[m])]
FullReduction == Reduction(wp.kind, FullRaw)

\* C20: in every execution, also with the per-meter work spread over a
\* worker pool, a population-wide reduction (peer median, min-max bounds)
\* starts only after every per-meter raw value it depends on is computed,
\* and no normalised value is produced from bounds that miss some meter.
C20_BarrierOrdering ==
  /\ wp.stage = "pass1" => (wp.reduction = << >> /\ wp.norm = << >>)
  /\ wp.stage = "pass2" =>
       /\ wp.running = {}
       /\ DOMAIN wp.raw = wp.meters
       /\ wp.reduction.over = wp.meters
       /\ wp.reduction = FullReduction
       /\ \A m \in DOMAIN wp.norm :
            wp.norm[m] = Rescaled(wp.kind, FullRaw[m], FullReduction)

C20_Witness ==
  /\ wp.stage = "pass2"
  /\ wp.kind = "min_max"
  /\ Cardinality(wp.meters) = 3
  /\ DOMAIN wp.norm = wp.meters
  /\ \E m \in wp.meters : wp.norm[m] = One
  /\ \E m \in wp.meters : wp.norm[m] = Zero
  /\ \E m \in wp.meters : RLt(Zero, wp.norm[m]) /\ RLt(wp.norm[m], One)

PoolComplete == wp.stage = "pass2" /\ DOMAIN wp.norm = wp.meters

\* The normalised table computed meter by meter in meter order.
InOrderTable ==
  Tabulate([m \in wp.meters |-> Rescaled(wp.kind, FullRaw[m], FullReduction)],
           wp.meters)

DegradationBroadcast ==
  pc = "done" =>
    /\ \A r \in Rows : \A q \in Rows :
         r.cluster_id = q.cluster_id => r.cluster_degradation = q.cluster_degradation
    /\ \A r \in Rows : r.cluster_degradation = cluster_degradation[r.cluster_id]
    /\ DOMAIN cluster_degradation = ClustersOf(cluster_id, meters)

DegradationKept == AfterDegradation => cluster_degradation' = cluster_degradation

\* C22: any two meters with the same cluster_id carry the same
\* cluster_degradation in the output, the value of their cluster in the
\* cluster-to-degradation mapping, and that mapping is not changed once it
\* is built within a run.
C22_DegradationBroadcast == [] DegradationBroadcast /\ [][DegradationKept]_vars

C22_Witness ==
  /\ pc = "done"
  /\ Len(output) = 3
  /\ \E i \in 1..3 : \E j \in 1..3 :
       /\ i # j
       /\ output[i].cluster_id = output[j].cluster_id
       /\ output[i].risk_percent # output[j].risk_percent
       /\ output[i].cluster_degradation = Zero
  /\ \E i \in 1..3 : output[i].cluster_degradation = One

Aggregated == agg.stage = "aggregated"
DailyOf(m, p) == {k \in DOMAIN agg.daily : k[1] = m /\ k[2] = p}

\* C23: for every (meter, period) with at least one daily record the
\* aggregated volume is the sum of the meter's daily volumes in the period;
\* a (meter, period) without daily record has no row; an empty input gives
\* an empty output; a meter with fewer than min_months periods is kept.
C23_MonthlyAggregation ==
  Aggregated =>
    /\ \A m \in AggMeters : \A p \in AggPeriods :
         IF DailyOf(m, p) = {}
         THEN << m, p >> \notin DOMAIN agg.rows
         ELSE /\ << m, p >> \in DOMAIN agg.rows
              /\ agg.rows[<< m, p >>] = SumDaily(agg.daily, DailyOf(m, p))
    /\ DOMAIN agg.rows \subseteq AggMeters \X AggPeriods
    /\ DOMAIN agg.daily = {} => DOMAIN agg.rows = {}
    /\ \A m \in AggMeters :
         NumPeriods(agg.rows, m) >= 1 => m \in agg.included

C23_Witness ==
  /\ Aggregated
  /\ << 1, 1 >> \in DOMAIN agg.rows /\ agg.rows[<< 1, 1 >>] = 2
  /\ << 1, 2 >> \notin DOMAIN agg.rows
  /\ NumPeriods(agg.rows, 1) < MinMonths
  /\ 1 \in agg.included
  /\ << 2, 2 >> \in DOMAIN agg.rows /\ agg.rows[<< 2, 2 >>] = 0

PeersOf(m) == PeerGroup(ns.mode, ns.labels, ns.consumo, m)

\* C24: every row of the normalised series has x_norm >= 0; no row is
\* emitted for a (meter, period) whose peer median and volume are both
\* exactly 0, nor for a meter of a period (or of a cluster and period, with
\* cluster peers) that has no eligible peer.
C24_NormalisedRows ==
  ns.stage = "normalised" =>
    /\ DOMAIN ns.rows \subseteq DOMAIN ns.consumo
    /\ \A m \in DOMAIN ns.rows :
         /\ RLe(Zero, ns.rows[m].x_norm)
         /\ PeersOf(m) # {}
         /\ ~ (ns.rows[m].peer_median = Zero /\ ns.consumo[m] = Zero)
         /\ ns.rows[m].peer_median = Median(ValuesOf(ns.consumo, PeersOf(m)))
    /\ \A m \in DOMAIN ns.consumo \ DOMAIN ns.rows :
         \/ PeersOf(m) = {}
         \/ ns.consumo[m] = Zero /\ Median(ValuesOf(ns.consumo, PeersOf(m))) = Zero

C24_Witness ==
  /\ ns.stage = "normalised"
  /\ ns.mode = "cluster"
  /\ Len(ns.consumo) = 3
  /\ \E m \in DOMAIN ns.rows : RLt(Zero, ns.rows[m].x_norm)
  /\ \E m \in DOMAIN ns.consumo \ DOMAIN ns.rows : PeersOf(m) # {}
  /\ \E m \in DOMAIN ns.consumo \ DOMAIN ns.rows : PeersOf(m) = {}

\* ------------------------------------------------------------------------
\* C25: InsightsSheet holds no state while closed: whenever the effects have
\* run with isOpen = false, the alarm list is empty, selectedAlarm is null,
\* the speech engine holds no utterance and isPlayingVoice is false.
\* ------------------------------------------------------------------------
SheetClosed == sheet.stage = "mounted" /\ ~ sheet.isOpen

C25_NoStateWhileClosed ==
  SheetClosed =>
    /\ sheet.alarms = << >>
    /\ sheet.selectedAlarm = NoAlarm
    /\ sheet.queued = 0
    /\ ~ sheet.isPlayingVoice

\* The sheet is closed and has reset its state, while the speech engine still
\* holds an utterance: the event of a cancelled utterance cleared
\* isPlayingVoice during the next one, so closing did not call cancel().
C25_Witness ==
  /\ SheetClosed
  /\ sheet.alarms = << >>
  /\ sheet.selectedAlarm = NoAlarm
  /\ ~ sheet.isPlayingVoice
  /\ sheet.queued > 0

\* ------------------------------------------------------------------------
\* C30: Selected alarm consistency: while the sheet is open and the effects
\* have run, the alarm list equals generateAlarms of the current meters, and
\* whenever that list is non-empty selectedAlarm is non-null and equal, in
\* its id and in its contents, to an entry of the list.
\* ------------------------------------------------------------------------
SheetOpen == sheet.stage = "mounted" /\ sheet.isOpen

C30_SelectedAlarmConsistency ==
  SheetOpen =>
    /\ sheet.alarms = generateAlarms(sheet.meters)
    /\ sheet.alarms # << >> =>
         /\ sheet.selectedAlarm # NoAlarm
         /\ \E k \in DOMAIN sheet.alarms : sheet.alarms[k] = sheet.selectedAlarm

\* The open sheet shows the alarms of the current meters, and the selection
\* kept over a meter-list update has the id of one of them but the type or
\* the severity that alarm had before the update.
C30_Witness ==
  /\ SheetOpen
  /\ sheet.alarms = generateAlarms(sheet.meters)
  /\ \E k \in DOMAIN sheet.alarms :
       /\ sheet.alarms[k].id = sheet.selectedAlarm.id
       /\ sheet.alarms[k] # sheet.selectedAlarm

\* ------------------------------------------------------------------------
\* C27: in a population whose raw values are not all equal, min-max
\* normalisation preserves order and gives 0 to at least one member and 1 to
\* at least one member; so each completed run whose base risks R_raw are not
\* all equal has a meter with risk_percent_base = 0 and a meter with
\* risk_percent_base = risk_percent = 100.
\* ------------------------------------------------------------------------
OrderKept(raw, norm, S) ==
  \A a \in S : \A b \in S : RLt(raw[a], raw[b]) => RLt(norm[a], norm[b])

HitsBothEnds(norm, S) ==
  /\ \E a \in S : norm[a] = Zero
  /\ \E b \in S : norm[b] = One

Spread(raw, norm, S) ==
  ~ AllEqual(raw, S) => OrderKept(raw, norm, S) /\ HitsBothEnds(norm, S)

RawBase == BaseRiskRaw(anomaly_score, cluster_degradation, cluster_id, meters)

HasBothExtremes ==
  /\ \E r \in Rows : r.risk_percent_base = Zero
  /\ \E r \in Rows : r.risk_percent_base = Hundred /\ r.risk_percent = Hundred

C27_BothEndsReached ==
  /\ AfterAnomaly =>
       Spread(CentroidDistance(latent, cluster_id, meters), anomaly_score, meters)
  /\ AfterDegradation =>
       Spread(DegradationIndex(age, canya, cluster_id, meters),
              cluster_degradation, ClustersOf(cluster_id, meters))
  /\ AfterBase => Spread(RawBase, p_cluster, meters)
  /\ AfterSubcount => Spread(RawSubcount, NormSubcount, DOMAIN df_sub)
  /\ (pc = "done" /\ ~ AllEqual(RawBase, meters)) => HasBothExtremes

\* A completed run of three meters with three different base risks, whose
\* top meter also has a positive subcount_score.
C27_Witness ==
  /\ pc = "done"
  /\ Cardinality({RawBase[m] : m \in meters}) = 3
  /\ HasBothExtremes
  /\ \E r \in Rows : /\ r.risk_percent_base = Hundred
                      /\ RLt(Zero, r.subcount_score)

\* The statement for every completed run, degenerate populations included.
C27_EveryRunHasBothExtremes ==
  pc = "done" => HasBothExtremes

\* ------------------------------------------------------------------------
\* C26: the map is initialised only once: at most one Mapbox instance is
\* alive per mounted WaterMeterMap, and after unmount no instance remains,
\* also when the unmount comes before the 'load' event.
\* ------------------------------------------------------------------------
C26_SingleMapInstance ==
  wmap.stage # "idle" =>
    /\ wmap.alive <= 1
    /\ wmap.stage = "unmounted" => wmap.alive = 0

\* The component was unmounted before 'load'; the instance was not removed,
\* its 'load' handler ran afterwards and added the layers.
C26_Witness ==
  /\ wmap.stage = "unmounted"
  /\ wmap.alive = 1
  /\ wmap.mapInitialized
  /\ wmap.mapStage = "layers"

\* ------------------------------------------------------------------------
\* C28: map filter consistency: once the meter layers exist and the effects
\* have run, a status layer has non-zero circle opacity if and only if
\* filterStatus is true for its status (stated for the views that show the
\* meters); a toggle made before the layers are added is not lost.
\* ------------------------------------------------------------------------
LayersShown ==
  wmap.stage = "mounted" /\ wmap.mapStage = "layers" /\ wmap.viewMode # "sections"

C28_FilterConsistency ==
  LayersShown => \A s \in Statuses : wmap.opacity[s] <=> wmap.filterStatus[s]

\* The layers exist, the view was never changed, a status is filtered out and
\* its layer is drawn: the toggle came before the layers.
C28_Witness ==
  /\ LayersShown
  /\ wmap.viewMode = InitialViewMode
  /\ \E s \in Statuses : ~ wmap.filterStatus[s] /\ wmap.opacity[s]

\* ------------------------------------------------------------------------
\* C29: meter data loading reaches quiescence: handing the loaded meters to
\* Index starts no further fetch, so that without a user action the page
\* fetches the meter data once.
\* ------------------------------------------------------------------------
C29_LoadQuiescence ==
  (wmap.stage # "idle" /\ ~ wmap.userActed) => wmap.fetches <= 1

\* Without any user action the page has started MaxFetches fetches, each one
\* by handing the meters of the previous one to Index.
C29_Witness ==
  /\ wmap.stage = "mounted"
  /\ ~ wmap.userActed
  /\ wmap.fetches = MaxFetches
  /\ wmap.inflight = 1

====
